---- MODULE Spec2Model ----
(***************************************************************************)
(* The Gopher quality tagger of ai2_llm_filters/taggers/gopher.py:         *)
(* get_attributes, occurrence_counts, find_ngrams, GopherAttributes.as_spans*)
(* and GopherTagger.predict, as a state machine that executes predict one  *)
(* statement at a time.                                                    *)
(*                                                                         *)
(* A text is a sequence of one-character strings.  A float that the code   *)
(* obtains as int / int is kept as the exact fraction [num, den] (the      *)
(* division is correctly rounded, so two such floats are equal exactly     *)
(* when the fractions are); an int score is the fraction n/1.              *)
(***************************************************************************)
EXTENDS Integers, Sequences, FiniteSets, TLC

(***************************************************************************)
(* Bounds of the model.                                                    *)
(***************************************************************************)
\* longest text of the exhaustive character-level input set
MaxTextLen == 4
\* most words of a text of the word-level input set
MaxWords == 11
\* longest text of the input set of the repeated-call specification
MaxRepeatLen == 2

(***************************************************************************)
(* Characters.                                                             *)
(***************************************************************************)
NL == "\n"
\* the one character U+2026 (horizontal ellipsis), named by its code point
ELLIPSIS == "u2026"

\* the characters str.split() treats as separators
Whitespace == {" ", NL, "\t"}
\* the characters c with c.isalpha()
Alpha == {"a", "b", "c", "e", "f", "h", "i", "k", "n", "o", "q", "r", "t", "u", "v", "w", "x"}

The == <<"t", "h", "e">>
REQUIRED_ENGLISH_WORDS ==
    { The, <<"b", "e">>, <<"t", "o">>, <<"o", "f">>, <<"a", "n", "d">>,
      <<"t", "h", "a", "t">>, <<"h", "a", "v", "e">>, <<"w", "i", "t", "h">> }
SYMBOLS == {"#", ELLIPSIS}
BULLET_POINTS == {"*", "-"}

\* logging.exception(f"... {text[:200]}")
ExcerptLen == 200

(***************************************************************************)
(* Numbers.                                                                *)
(***************************************************************************)
Frac(a, b) == [num |-> a, den |-> b]
Whole(a) == Frac(a, 1)
\* equality and order of the floats two fractions stand for
FracEq(x, y) == x.num * y.den = y.num * x.den
InUnit(x) == x.den > 0 /\ 0 <= x.num /\ x.num <= x.den

Min(a, b) == IF a <= b THEN a ELSE b
Max0(a) == IF a >= 0 THEN a ELSE 0

RECURSIVE SumSeq(_)
SumSeq(s) == IF s = <<>> THEN 0 ELSE Head(s) + SumSeq(Tail(s))

\* sum(1 for x in s if P(x)), given the sequence of the P(x)
CountTrue(flags) == Cardinality({i \in DOMAIN flags : flags[i]})

\* [len(x) for x in s]
Lens(s) == [i \in DOMAIN s |-> Len(s[i])]

\* sum(len(s) for s in ng)
CharLen(ng) == SumSeq(Lens(ng))

(***************************************************************************)
(* str.split(), str.split("\n"), str.startswith, str.endswith.             *)
(***************************************************************************)
RECURSIVE SplitWs(_, _)
SplitWs(text, cur) ==
    IF text = <<>>
    THEN (IF cur = <<>> THEN <<>> ELSE <<cur>>)
    ELSE IF Head(text) \in Whitespace
         THEN (IF cur = <<>> THEN <<>> ELSE <<cur>>) \o SplitWs(Tail(text), <<>>)
         ELSE SplitWs(Tail(text), Append(cur, Head(text)))

\* text.split(): maximal runs of non-whitespace characters
split(text) == SplitWs(text, <<>>)

RECURSIVE SplitSep(_, _, _)
SplitSep(text, sep, cur) ==
    IF text = <<>>
    THEN <<cur>>
    ELSE IF Head(text) = sep
         THEN <<cur>> \o SplitSep(Tail(text), sep, <<>>)
         ELSE SplitSep(Tail(text), sep, Append(cur, Head(text)))

\* text.split(sep): every piece between separators, empty pieces included
split_on(text, sep) == SplitSep(text, sep, <<>>)

startswith(line, s) == Len(line) >= 1 /\ line[1] = s
endswith(line, s) == Len(line) >= 1 /\ line[Len(line)] = s

(***************************************************************************)
(* statistics.median                                                       *)
(***************************************************************************)
median(data) ==
    LET sorted == SortSeq(data, LAMBDA x, y : x < y)
        k == Len(data)
        i == k \div 2
    IN  IF k % 2 = 1
        THEN Whole(sorted[i + 1])
        ELSE Frac(sorted[i] + sorted[i + 1], 2)

(***************************************************************************)
(* occurrence_counts: a dict, kept as the sequence of its items in         *)
(* insertion order (the order a Python dict iterates in).                  *)
(***************************************************************************)
Increment(counts, key) ==
    IF \E i \in DOMAIN counts : counts[i].key = key
    THEN [i \in DOMAIN counts |->
            IF counts[i].key = key
            THEN [counts[i] EXCEPT !.count = @ + 1]
            ELSE counts[i]]
    ELSE Append(counts, [key |-> key, count |-> 1])

RECURSIVE CountFrom(_, _)
CountFrom(objects, counts) ==
    IF objects = <<>>
    THEN counts
    ELSE CountFrom(Tail(objects), Increment(counts, Head(objects)))

occurrence_counts(objects) == CountFrom(objects, <<>>)

\* list(zip(*[words[i:] for i in range(n)]))
find_ngrams(words, n) ==
    [j \in 1..Max0(Len(words) - n + 1) |-> SubSeq(words, j, j + n - 1)]

\* max(items, key=lambda x: x[1]): the first item of the largest count
RECURSIVE MaxScan(_, _)
MaxScan(items, best) ==
    IF items = <<>>
    THEN best
    ELSE MaxScan(Tail(items),
                 IF Head(items).count > best.count THEN Head(items) ELSE best)

RECURSIVE MaxScanLast(_, _)
MaxScanLast(items, best) ==
    IF items = <<>>
    THEN best
    ELSE MaxScanLast(Tail(items),
                     IF Head(items).count >= best.count THEN Head(items) ELSE best)

\* faulty variant: among the items of the largest count, the last one
max_by_count_last(items) == MaxScanLast(Tail(items), Head(items))

max_by_count(items) == MaxScan(Tail(items), Head(items))

IsDuplicated(item) == item.count > 1
\* the items of counts.items() ... if count > 1
Duplicated(items) == SelectSeq(items, IsDuplicated)

(***************************************************************************)
(* The metrics of get_attributes, one operator per assignment.             *)
(***************************************************************************)
HasSymbol(word) == \E i \in DOMAIN word : word[i] \in SYMBOLS
HasAlpha(word) == \E i \in DOMAIN word : word[i] \in Alpha
IsRequired(word) == word \in REQUIRED_ENGLISH_WORDS
IsBullet(line) == \E s \in BULLET_POINTS : startswith(line, s)
EndsWithEllipsis(line) == endswith(line, ELLIPSIS)

SymbolToWordRatio(ws) == Frac(CountTrue([i \in DOMAIN ws |-> HasSymbol(ws[i])]), Len(ws))
AlphaFraction(ws) == Frac(CountTrue([i \in DOMAIN ws |-> HasAlpha(ws[i])]), Len(ws))
RequiredWordCount(ws) == CountTrue([i \in DOMAIN ws |-> IsRequired(ws[i])])

\* faulty variant: divides by the number of words
MostCommonNgramValue_per_word(ws, chars, k) ==
    LET ngrams == find_ngrams(ws, k)
    IN  IF ngrams # <<>>
        THEN Frac(CharLen(max_by_count(occurrence_counts(ngrams)).key), Len(ws))
        ELSE Whole(0)

\* one pass of the loop over range(2, 5); chars is the sum of the word lengths
MostCommonNgramValue(ws, chars, k) ==
    LET ngrams == find_ngrams(ws, k)
    IN  IF ngrams # <<>>
        THEN Frac(CharLen(max_by_count(occurrence_counts(ngrams)).key), chars)
        ELSE Whole(0)

NgramWeight(item) == CharLen(item.key) * item.count
NgramExtraWeight(item) == CharLen(item.key) * (item.count - 1)

\* faulty variant: counts only the copies of an n-gram after its first
DuplicateNgramValue_extra_copies(ws, k) ==
    LET ngrams == find_ngrams(ws, k)
        ng_char_count == SumSeq([i \in DOMAIN ngrams |-> CharLen(ngrams[i])])
        dup == Duplicated(occurrence_counts(ngrams))
    IN  IF ngrams # <<>>
        THEN Frac(SumSeq([i \in DOMAIN dup |-> NgramExtraWeight(dup[i])]), ng_char_count)
        ELSE Whole(0)

\* one pass of the loop over range(5, 11)
DuplicateNgramValue(ws, k) ==
    LET ngrams == find_ngrams(ws, k)
        ng_char_count == SumSeq([i \in DOMAIN ngrams |-> CharLen(ngrams[i])])
        dup == Duplicated(occurrence_counts(ngrams))
    IN  IF ngrams # <<>>
        THEN Frac(SumSeq([i \in DOMAIN dup |-> NgramWeight(dup[i])]), ng_char_count)
        ELSE Whole(0)

BulletFraction(ls) == Frac(CountTrue([i \in DOMAIN ls |-> IsBullet(ls[i])]), Len(ls))
EllipsisFraction(ls) == Frac(CountTrue([i \in DOMAIN ls |-> EndsWithEllipsis(ls[i])]), Len(ls))

LineCount(item) == item.count
LineWeight(item) == Len(item.key) * item.count

LineExtraCount(item) == item.count - 1
\* faulty variant: counts only the copies of a line after its first
DuplicateLinesFraction_extra_copies(ls) ==
    LET dup == Duplicated(occurrence_counts(ls))
    IN  Frac(SumSeq([i \in DOMAIN dup |-> LineExtraCount(dup[i])]), Len(ls))

DuplicateLinesFraction(ls) ==
    LET dup == Duplicated(occurrence_counts(ls))
    IN  Frac(SumSeq([i \in DOMAIN dup |-> LineCount(dup[i])]), Len(ls))
\* chars is the local character_count: the sum of the word lengths
DuplicateLineCharsValue(ls, chars) ==
    LET dup == Duplicated(occurrence_counts(ls))
    IN  Frac(SumSeq([i \in DOMAIN dup |-> LineWeight(dup[i])]), chars)

(***************************************************************************)
(* GopherAttributes and its conversion to spans.                           *)
(***************************************************************************)
\* The dataclass with its defaults.  median_word_length defaults to False,
\* which Python counts as the number 0.  extra holds the value of the
\* attribute fraction__of_characters_in_duplicate_lines, which is no field
\* of the class: <<>> until line 143 creates it.
GopherAttributes(most_common, duplicate) ==
    [ fraction_of_characters_in_most_common_ngram |-> most_common,
      fraction_of_characters_in_duplicate_ngrams |-> duplicate,
      character_count |-> 0,
      word_count |-> 0,
      median_word_length |-> Whole(0),
      symbol_to_word_ratio |-> Whole(0),
      fraction_of_words_with_alpha_character |-> Whole(0),
      required_word_count |-> 0,
      fraction_of_lines_starting_with_bullet_point |-> Whole(0),
      fraction_of_lines_ending_with_ellipsis |-> Whole(0),
      fraction_of_duplicate_lines |-> Whole(0),
      fraction_of_characters_in_duplicate_lines |-> Whole(0),
      extra |-> <<>> ]

Span(start, end, type, score) ==
    [start |-> start, end |-> end, type |-> type, score |-> score]

\* f"fraction_of_characters_in_most_common_{n}grams"
MostCommonType(k) ==
    "fraction_of_characters_in_most_common_" \o ToString(k) \o "grams"
\* f"fraction_of_characters_in_duplicate_{n}grams"
DuplicateType(k) ==
    "fraction_of_characters_in_duplicate_" \o ToString(k) \o "grams"

\* lines 33-38
MostCommonSpans(a) ==
    LET entries == a.fraction_of_characters_in_most_common_ngram
    IN  [i \in DOMAIN entries |->
            Span(0, a.character_count, MostCommonType(entries[i][1]), entries[i][2])]

\* lines 39-44
DuplicateSpans(a) ==
    LET entries == a.fraction_of_characters_in_duplicate_ngrams
    IN  [i \in DOMAIN entries |->
            Span(0, a.character_count, DuplicateType(entries[i][1]), entries[i][2])]

ScalarSpans(a) ==
    << Span(0, a.character_count, "character_count", Whole(a.character_count)),
       Span(0, a.character_count, "word_count", Whole(a.word_count)),
       Span(0, a.character_count, "median_word_length", a.median_word_length),
       Span(0, a.character_count, "symbol_to_word_ratio", a.symbol_to_word_ratio),
       Span(0, a.character_count, "fraction_of_words_with_alpha_character",
            a.fraction_of_words_with_alpha_character),
       Span(0, a.character_count, "required_word_count", Whole(a.required_word_count)),
       Span(0, a.character_count, "fraction_of_lines_starting_with_bullet_point",
            a.fraction_of_lines_starting_with_bullet_point),
       Span(0, a.character_count, "fraction_of_lines_ending_with_ellipsis",
            a.fraction_of_lines_ending_with_ellipsis),
       Span(0, a.character_count, "fraction_of_duplicate_lines",
            a.fraction_of_duplicate_lines),
       Span(0, a.character_count, "fraction_of_characters_in_duplicate_lines",
            a.fraction_of_characters_in_duplicate_lines) >>

\* faulty variant: the scalar spans come first
as_spans_scalars_first(a) ==
    ScalarSpans(a) \o MostCommonSpans(a) \o DuplicateSpans(a)

as_spans(a) ==
    MostCommonSpans(a) \o DuplicateSpans(a) \o ScalarSpans(a)

(***************************************************************************)
(* Inputs.                                                                 *)
(***************************************************************************)
SeqsUpTo(S, k) == UNION {[1..m -> S] : m \in 0..k}

RECURSIVE join(_, _)
\* sep.join(ws)
join(sep, ws) ==
    IF ws = <<>> THEN <<>>
    ELSE IF Len(ws) = 1 THEN Head(ws)
    ELSE Head(ws) \o <<sep>> \o join(sep, Tail(ws))

Cat == <<"c", "a", "t">>
\* "a\na\nb\n"
TextLines == <<"a", NL, "a", NL, "b", NL>>
\* "the cat the cat the cat"
TextTheCat == join(" ", <<The, Cat, The, Cat, The, Cat>>)
\* "the quick brown fox"
TextFox == join(" ", <<The, <<"q", "u", "i", "c", "k">>,
                       <<"b", "r", "o", "w", "n">>, <<"f", "o", "x">>>>)
ExampleTexts == {TextLines, TextTheCat, TextFox}

Chars == {"a", " ", NL, "#", "-", ELLIPSIS}
\* every text of at most MaxTextLen characters
CharTexts == SeqsUpTo(Chars, MaxTextLen)

Vocabulary == {<<"a">>, <<"b", "b">>}
\* every text of at most MaxWords words separated by single spaces
WordTexts == {join(" ", ws) : ws \in SeqsUpTo(Vocabulary, MaxWords)}

Texts == CharTexts \cup WordTexts \cup ExampleTexts

RepeatChars == {"a", " "}
RepeatTexts == SeqsUpTo(RepeatChars, MaxRepeatLen)

Document(id, t) == [id |-> id, text |-> t]
DocResult(d, spans) == [doc |-> d, spans |-> spans]

(***************************************************************************)
(* State.                                                                  *)
(***************************************************************************)
VARIABLES
    pc,               \* the statement predict is at
    doc,              \* the Document predict was called with
    text,             \* get_attributes' parameter
    attrs,            \* get_attributes' GopherAttributes object
    words,            \* local of get_attributes
    character_count,  \* local of get_attributes: the sum of the word lengths
    n,                \* loop variable of the two n-gram loops
    lines,            \* local of get_attributes
    log,              \* what the call has logged
    result,           \* <<the DocResult returned>>, <<>> while there is none
    failed_at,        \* history: the statement that raised in this call
    steps_run,        \* history: statements of the try block begun in this call
    remembered        \* history: <<the DocResult of an earlier call>>

vars == <<pc, doc, text, attrs, words, character_count, n, lines, log, result,
          failed_at, steps_run, remembered>>

locals == <<words, character_count, n, lines>>

\* faulty variant: the two lists are shared with the object of the call before
\* (what a mutable default argument would do)
NewAttributes_shared_lists ==
    GopherAttributes(attrs.fraction_of_characters_in_most_common_ngram,
                     attrs.fraction_of_characters_in_duplicate_ngrams)

\* GopherAttributes([], [])
NewAttributes == GopherAttributes(<<>>, <<>>)

\* faulty variant: the characters of the words only
CharacterCount_of_words(t) == CharLen(split(t))

\* len(text)
CharacterCount(t) == Len(t)

\* faulty variant: the test never succeeds
IsEmpty_negative(count) == count < 0

\* line 93: if attrs.character_count == 0
IsEmpty(count) == count = 0

\* faulty variant: except ZeroDivisionError
Catches_zero_division_only(exc) == exc = "ZeroDivisionError"

\* except Exception: every exception a statement of the try block can raise
\* (StatisticsError, ZeroDivisionError) is an Exception
Catches(exc) == exc \in {"StatisticsError", "ZeroDivisionError"}

Init ==
    /\ pc = "idle"
    /\ doc = Document("", <<>>)
    /\ text = <<>>
    /\ attrs = GopherAttributes(<<>>, <<>>)
    /\ words = <<>>
    /\ character_count = 0
    /\ n = 0
    /\ lines = <<>>
    /\ log = <<>>
    /\ result = <<>>
    /\ failed_at = "none"
    /\ steps_run = 0
    /\ remembered = <<>>

\* line 167: predict(doc) calls get_attributes(doc.text)
predict(d) ==
    /\ pc \in {"idle", "done", "raised"}
    /\ pc' = "construct"
    /\ doc' = d
    /\ text' = d.text
    /\ result' = <<>>
    /\ log' = <<>>
    /\ failed_at' = "none"
    /\ steps_run' = 0
    /\ UNCHANGED <<attrs, locals, remembered>>

\* lines 91-94
Construct ==
    /\ pc = "construct"
    /\ attrs' = [NewAttributes EXCEPT !.character_count = CharacterCount(text)]
    /\ pc' = IF IsEmpty(attrs'.character_count) THEN "return" ELSE "tokenize"
    /\ UNCHANGED <<doc, text, locals, log, result, failed_at, steps_run, remembered>>

\* a statement of the try block raises exc: lines 147-148 when it is caught
Raise(exc) ==
    /\ failed_at' = pc
    /\ IF Catches(exc)
       THEN /\ pc' = "return"
            /\ log' = Append(log, SubSeq(text, 1, Min(ExcerptLen, Len(text))))
       ELSE /\ pc' = "raised"
            /\ log' = log
    /\ UNCHANGED <<attrs, locals>>

\* a statement of the try block that assigns value to attrs.field; a
\* denominator of 0 is Python's ZeroDivisionError
Assign(at, field, value, next) ==
    /\ pc = at
    /\ steps_run' = steps_run + 1
    /\ IF value.den = 0
       THEN Raise("ZeroDivisionError")
       ELSE /\ attrs' = [attrs EXCEPT ![field] = value]
            /\ pc' = next
            /\ UNCHANGED <<locals, log, failed_at>>
    /\ UNCHANGED <<doc, text, result, remembered>>

\* lines 97-101
Tokenize ==
    /\ pc = "tokenize"
    /\ steps_run' = steps_run + 1
    /\ words' = split(text)
    /\ character_count' = CharLen(words')
    /\ attrs' = [attrs EXCEPT !.word_count = Len(words')]
    /\ pc' = "median"
    /\ UNCHANGED <<doc, text, n, lines, log, result, failed_at, remembered>>

\* line 102: median of an empty list raises StatisticsError
Median ==
    /\ pc = "median"
    /\ steps_run' = steps_run + 1
    /\ IF words = <<>>
       THEN Raise("StatisticsError")
       ELSE /\ attrs' = [attrs EXCEPT !.median_word_length = median(Lens(words))]
            /\ pc' = "symbol"
            /\ UNCHANGED <<locals, log, failed_at>>
    /\ UNCHANGED <<doc, text, result, remembered>>

\* line 103
Symbol == Assign("symbol", "symbol_to_word_ratio", SymbolToWordRatio(words), "alpha")

\* lines 104-106
AlphaWords ==
    Assign("alpha", "fraction_of_words_with_alpha_character", AlphaFraction(words),
           "required")

\* line 107, and the entry of the loop of line 109
Required ==
    /\ pc = "required"
    /\ steps_run' = steps_run + 1
    /\ attrs' = [attrs EXCEPT !.required_word_count = RequiredWordCount(words)]
    /\ n' = 2
    /\ pc' = "most_common"
    /\ UNCHANGED <<doc, text, words, character_count, lines, log, result,
                   failed_at, remembered>>

\* one pass of an n-gram loop: append (n, value) to attrs.field
NgramPass(at, field, value, last, next) ==
    /\ pc = at
    /\ steps_run' = steps_run + 1
    /\ IF value.den = 0
       THEN Raise("ZeroDivisionError")
       ELSE /\ attrs' = [attrs EXCEPT ![field] = Append(@, <<n, value>>)]
            /\ n' = n + 1
            /\ pc' = IF n = last THEN next ELSE at
            /\ UNCHANGED <<words, character_count, lines, log, failed_at>>
    /\ UNCHANGED <<doc, text, result, remembered>>

\* lines 109-116, n = 2, 3, 4
MostCommon ==
    NgramPass("most_common", "fraction_of_characters_in_most_common_ngram",
              MostCommonNgramValue(words, character_count, n), 4, "duplicate_ngrams")

\* lines 118-129, n = 5, ..., 10
DuplicateNgrams ==
    NgramPass("duplicate_ngrams", "fraction_of_characters_in_duplicate_ngrams",
              DuplicateNgramValue(words, n), 10, "split_lines")

\* lines 131-132
SplitLines ==
    /\ pc = "split_lines"
    /\ steps_run' = steps_run + 1
    /\ lines' = split_on(text, NL)
    /\ pc' = "bullet"
    /\ UNCHANGED <<doc, text, attrs, words, character_count, n, log, result,
                   failed_at, remembered>>

\* lines 134-136
Bullet ==
    Assign("bullet", "fraction_of_lines_starting_with_bullet_point",
           BulletFraction(lines), "ellipsis")

\* lines 137-139
Ellipsis ==
    Assign("ellipsis", "fraction_of_lines_ending_with_ellipsis",
           EllipsisFraction(lines), "duplicate_lines")

\* lines 140-142
DuplicateLines ==
    Assign("duplicate_lines", "fraction_of_duplicate_lines",
           DuplicateLinesFraction(lines), "duplicate_line_chars")

\* the name line 143 assigns to: fraction__of_characters_in_duplicate_lines,
\* which the object gains as a new attribute
DuplicateLineCharsTarget == "extra"

\* what the assignment stores under that name
Stored(field, value) == IF field = "extra" THEN <<value>> ELSE value

\* lines 143-146
DuplicateLineChars ==
    /\ pc = "duplicate_line_chars"
    /\ steps_run' = steps_run + 1
    /\ LET value == DuplicateLineCharsValue(lines, character_count)
       IN  IF value.den = 0
           THEN Raise("ZeroDivisionError")
           ELSE /\ attrs' = [attrs EXCEPT ![DuplicateLineCharsTarget] =
                                Stored(DuplicateLineCharsTarget, value)]
                /\ pc' = "return"
                /\ UNCHANGED <<locals, log, failed_at>>
    /\ UNCHANGED <<doc, text, result, remembered>>

\* lines 150 and 168-169: get_attributes returns attrs, predict the DocResult
Return ==
    /\ pc = "return"
    /\ result' = <<DocResult(doc, as_spans(attrs))>>
    /\ pc' = "done"
    /\ text' = <<>>
    /\ words' = <<>>
    /\ character_count' = 0
    /\ n' = 0
    /\ lines' = <<>>
    /\ UNCHANGED <<doc, attrs, log, failed_at, steps_run, remembered>>

\* the caller is done with the DocResult; the attribute record is garbage
Release ==
    /\ pc \in {"done", "raised"}
    /\ pc' = "idle"
    /\ doc' = Document("", <<>>)
    /\ attrs' = GopherAttributes(<<>>, <<>>)
    /\ result' = <<>>
    /\ log' = <<>>
    /\ failed_at' = "none"
    /\ steps_run' = 0
    /\ text' = <<>>
    /\ words' = <<>>
    /\ character_count' = 0
    /\ n' = 0
    /\ lines' = <<>>
    /\ UNCHANGED remembered

\* history: keep the DocResult of a finished call
Remember ==
    /\ pc = "done"
    /\ remembered = <<>>
    /\ remembered' = result
    /\ UNCHANGED <<pc, doc, text, attrs, locals, log, result, failed_at, steps_run>>

get_attributes ==
    \/ Construct
    \/ Tokenize
    \/ Median
    \/ Symbol
    \/ AlphaWords
    \/ Required
    \/ MostCommon
    \/ DuplicateNgrams
    \/ SplitLines
    \/ Bullet
    \/ Ellipsis
    \/ DuplicateLines
    \/ DuplicateLineChars

\* one call at a time, each result released before the next call
PredictText == pc = "idle" /\ \E t \in Texts : predict(Document("d1", t))
\* a call follows a call directly
PredictRepeat == \E id \in {"d1", "d2"} : \E t \in RepeatTexts : predict(Document(id, t))

Next == PredictText \/ get_attributes \/ Return \/ Release
NextRepeat == PredictRepeat \/ get_attributes \/ Return \/ Remember

\* calls on the character-level texts, the texts of many words and the examples
Spec == Init /\ [][Next]_vars
\* calls in any order, with the result of one of them kept for comparison
SpecRepeat == Init /\ [][NextRepeat]_vars

(***************************************************************************)
(* What the properties below speak of, stated on the text itself.          *)
(***************************************************************************)
RECURSIVE SumFn(_)
\* the sum of the values of a function of finite domain
SumFn(f) ==
    IF DOMAIN f = {}
    THEN 0
    ELSE LET x == CHOOSE y \in DOMAIN f : TRUE
         IN  f[x] + SumFn([y \in DOMAIN f \ {x} |-> f[y]])

\* the positions of s that hold the same object as position j
Same(s, j) == {i \in DOMAIN s : s[i] = s[j]}
\* the positions of s whose object occurs more than once
Repeated(s) == {j \in DOMAIN s : Cardinality(Same(s, j)) > 1}

\* the number of characters of t that are not whitespace
WordChars(t) == Cardinality({i \in DOMAIN t : t[i] \notin Whitespace})
\* the number of words of t: the positions where a word starts
WordsIn(t) ==
    Cardinality({i \in DOMAIN t :
        t[i] \notin Whitespace /\ (i = 1 \/ t[i - 1] \in Whitespace)})
\* the number of newline characters of t
Newlines(t) == Cardinality({i \in DOMAIN t : t[i] = NL})

\* the k-word windows of ws, by the position of their first word
Windows(ws, k) == [j \in 1..(Len(ws) - k + 1) |-> SubSeq(ws, j, j + k - 1)]
\* the window of the largest number of occurrences whose first occurrence is earliest
Earliest(w) ==
    CHOOSE j \in DOMAIN w :
        /\ \A i \in DOMAIN w : Cardinality(Same(w, i)) <= Cardinality(Same(w, j))
        /\ \A i \in 1..(j - 1) : Cardinality(Same(w, i)) < Cardinality(Same(w, j))

\* the value attrs records for k in one of the two n-gram sequences
Recorded(entries, k) ==
    LET i == CHOOSE i \in DOMAIN entries : entries[i][1] = k IN entries[i][2]
Records(entries, k) == \E i \in DOMAIN entries : entries[i][1] = k

\* get_attributes has run every statement of the try block and is about to return
Computed == pc = "return" /\ failed_at = "none" /\ text # <<>>
\* predict has returned
Returned == pc = "done" /\ result # <<>>

Fractions(a) ==
    { a.symbol_to_word_ratio,
      a.fraction_of_words_with_alpha_character,
      a.fraction_of_lines_starting_with_bullet_point,
      a.fraction_of_lines_ending_with_ellipsis,
      a.fraction_of_duplicate_lines,
      a.fraction_of_characters_in_duplicate_lines }
    \cup {a.fraction_of_characters_in_most_common_ngram[i][2] :
            i \in DOMAIN a.fraction_of_characters_in_most_common_ngram}
    \cup {a.fraction_of_characters_in_duplicate_ngrams[i][2] :
            i \in DOMAIN a.fraction_of_characters_in_duplicate_ngrams}

\* the score of the span of the given type
Score(spans, type) ==
    LET i == CHOOSE i \in DOMAIN spans : spans[i].type = type IN spans[i].score

\* the characters in lines that occur more than once, over all their occurrences
DuplicateLineCharacters(t) ==
    LET ls == split_on(t, NL)
    IN  SumFn([j \in Repeated(ls) |-> Len(ls[j])])

(***************************************************************************)
(* C1.  For every non-empty text, fraction_of_characters_in_duplicate_lines*)
(* of the returned record, and the score of the span of that type, is the  *)
(* sum of len(line) * occurrences over the lines that occur more than once,*)
(* divided by len(text).  The code does not do this: line 143 assigns to   *)
(* the misspelt fraction__of_characters_in_duplicate_lines and divides by  *)
(* the sum of the word lengths, so the field keeps its default 0.0.        *)
(* Stated here for the texts with a word, where no statement fails.        *)
(***************************************************************************)
C1_DuplicateLineCharsOverTextLength ==
    (Returned /\ WordsIn(doc.text) > 0) =>
        LET expected == Frac(DuplicateLineCharacters(doc.text), Len(doc.text))
        IN  /\ FracEq(attrs.fraction_of_characters_in_duplicate_lines, expected)
            /\ FracEq(Score(result[1].spans,
                            "fraction_of_characters_in_duplicate_lines"), expected)

(***************************************************************************)
(* C2.  For every text with at least one word, fraction_of_duplicate_lines *)
(* is the number of occurrences of the lines that occur more than once over*)
(* line_count, the number of pieces the newline character cuts the text    *)
(* into.  As claimed: for "a\na\nb\n" line_count is 3 and the value 2/3.   *)
(***************************************************************************)
DuplicateLinesAsSpecified ==
    /\ Len(lines) = Newlines(text) + 1
    /\ join(NL, lines) = text
    /\ FracEq(attrs.fraction_of_duplicate_lines,
              Frac(Cardinality(Repeated(lines)), Len(lines)))

\* C2 as claimed, with its example of three lines
C2_ThreeLinesInExample ==
    Computed =>
        /\ DuplicateLinesAsSpecified
        /\ text = TextLines =>
              /\ Len(lines) = 3
              /\ FracEq(attrs.fraction_of_duplicate_lines, Frac(2, 3))

\* C2 as amended: the same, but the text "a\na\nb\n" ends with a newline, which
\* cuts off a fourth, empty line: line_count is 4 and the value 2/4.
C2_FourLinesInExample ==
    Computed =>
        /\ DuplicateLinesAsSpecified
        /\ text = TextLines =>
              /\ Len(lines) = 4
              /\ FracEq(attrs.fraction_of_duplicate_lines, Frac(2, 4))

C2_Witness ==
    /\ Computed
    /\ text = TextLines
    /\ attrs.fraction_of_duplicate_lines = Frac(2, 4)

(***************************************************************************)
(* C3.  get_attributes never propagates an exception: a statement that     *)
(* fails (the median of no words, for a non-empty text of whitespace only) *)
(* is caught and logged, and the record returned holds the fields assigned *)
(* before it (character_count, word_count) and the defaults elsewhere, with*)
(* both n-gram sequences empty.                                            *)
(***************************************************************************)
C3_FailureIsCaught ==
    /\ pc # "raised"
    /\ (Returned /\ doc.text # <<>> /\ WordsIn(doc.text) = 0) => failed_at = "median"
    /\ (Returned /\ failed_at # "none") =>
          /\ failed_at = "median"
          /\ log = <<SubSeq(doc.text, 1, Min(ExcerptLen, Len(doc.text)))>>
          /\ attrs.character_count = Len(doc.text)
          /\ attrs.word_count = 0
          /\ attrs.fraction_of_characters_in_most_common_ngram = <<>>
          /\ attrs.fraction_of_characters_in_duplicate_ngrams = <<>>
          /\ attrs.median_word_length = Whole(0)
          /\ attrs.required_word_count = 0
          /\ \A x \in Fractions(attrs) : x = Whole(0)
          /\ attrs.extra = <<>>

C3_Witness ==
    /\ Returned
    /\ failed_at = "median"
    /\ Len(doc.text) = 2
    /\ Len(result[1].spans) = 10

(***************************************************************************)
(* C4.  For the empty text get_attributes returns without raising and      *)
(* without running a statement of the try block: every numeric field is 0  *)
(* and both n-gram sequences are empty.                                    *)
(***************************************************************************)
C4_EmptyTextGivesDefaults ==
    (pc \in {"return", "done", "raised"} /\ doc.text = <<>>) =>
        /\ pc # "raised"
        /\ steps_run = 0
        /\ failed_at = "none"
        /\ log = <<>>
        /\ attrs.character_count = 0
        /\ attrs.word_count = 0
        /\ attrs.required_word_count = 0
        /\ attrs.median_word_length.num = 0
        /\ \A x \in Fractions(attrs) : x.num = 0
        /\ attrs.fraction_of_characters_in_most_common_ngram = <<>>
        /\ attrs.fraction_of_characters_in_duplicate_ngrams = <<>>

C4_Witness ==
    /\ Returned
    /\ doc.text = <<>>
    /\ Len(result[1].spans) = 10

(***************************************************************************)
(* C5.  For every non-empty text every fraction field of the returned      *)
(* record, and every value of the two n-gram sequences, lies in [0, 1].    *)
(***************************************************************************)
C5_FractionsInUnitInterval ==
    (Returned /\ doc.text # <<>>) => \A x \in Fractions(attrs) : InUnit(x)

\* a text whose fields are not all 0: a duplicated 5-gram and a most common 2-gram
C5_Witness ==
    /\ Returned
    /\ Records(attrs.fraction_of_characters_in_duplicate_ngrams, 5)
    /\ Recorded(attrs.fraction_of_characters_in_duplicate_ngrams, 5).num > 0
    /\ Recorded(attrs.fraction_of_characters_in_most_common_ngram, 2).num > 0
    /\ \E x \in Fractions(attrs) : x.num > 0 /\ x.num < x.den

(***************************************************************************)
(* C6.  For every text, the error path included, character_count of the    *)
(* record is the length of the text, and every span of the DocResult has   *)
(* start = 0 and end = that length.                                        *)
(***************************************************************************)
C6_CharacterCountIsLength ==
    /\ pc \in {"tokenize", "median", "symbol", "alpha", "required", "most_common",
               "duplicate_ngrams", "split_lines", "bullet", "ellipsis",
               "duplicate_lines", "duplicate_line_chars", "return", "done"}
          => attrs.character_count = Len(doc.text)
    /\ Returned =>
          /\ result[1].doc = doc
          /\ \A i \in DOMAIN result[1].spans :
                /\ result[1].spans[i].start = 0
                /\ result[1].spans[i].end = Len(doc.text)

\* the error path: a text of two whitespace characters
C6_Witness ==
    /\ Returned
    /\ failed_at = "median"
    /\ Len(doc.text) = 2
    /\ \A i \in DOMAIN result[1].spans : result[1].spans[i].end = 2

(***************************************************************************)
(* C7.  For n in 2..4 and a text of at least n words, the value recorded   *)
(* for n in fraction_of_characters_in_most_common_ngram is the number of   *)
(* characters of the n-word window that occurs most often (of several, the *)
(* one that occurs first in the text) over the number of characters of all *)
(* the words.                                                              *)
(***************************************************************************)
C7_MostCommonNgram ==
    Computed =>
        /\ Len(words) = WordsIn(text)
        /\ \A k \in 2..4 :
              /\ Records(attrs.fraction_of_characters_in_most_common_ngram, k)
              /\ Len(words) >= k =>
                    LET w == Windows(words, k)
                    IN  FracEq(Recorded(attrs.fraction_of_characters_in_most_common_ngram, k),
                               Frac(CharLen(w[Earliest(w)]), WordChars(text)))

\* "the cat the cat the cat": (3 + 3) / 18
C7_Witness ==
    /\ Computed
    /\ text = TextTheCat
    /\ Recorded(attrs.fraction_of_characters_in_most_common_ngram, 2) = Frac(6, 18)

(***************************************************************************)
(* C8.  For n in 5..10 and a text of at least n words, the value recorded  *)
(* for n in fraction_of_characters_in_duplicate_ngrams is the characters of*)
(* the n-word windows that occur more than once, every occurrence counted, *)
(* over the characters of all n-word windows; it is 0 exactly when the     *)
(* windows are pairwise distinct.                                          *)
(***************************************************************************)
C8_DuplicateNgrams ==
    Computed =>
        \A k \in 5..10 :
            /\ Records(attrs.fraction_of_characters_in_duplicate_ngrams, k)
            /\ Len(words) >= k =>
                  LET w == Windows(words, k)
                      v == Recorded(attrs.fraction_of_characters_in_duplicate_ngrams, k)
                  IN  /\ FracEq(v, Frac(SumFn([j \in Repeated(w) |-> CharLen(w[j])]),
                                        SumFn([j \in DOMAIN w |-> CharLen(w[j])])))
                      /\ v.num = 0 <=> Repeated(w) = {}

\* a text whose 10-word windows occur twice
C8_Witness ==
    /\ Computed
    /\ Len(words) >= 11
    /\ Recorded(attrs.fraction_of_characters_in_duplicate_ngrams, 10).num > 0
    /\ Recorded(attrs.fraction_of_characters_in_duplicate_ngrams, 5).num > 0

(***************************************************************************)
(* C9.  predict is deterministic and stateless: a call on a Document of the*)
(* same text as an earlier call, whatever was called in between, returns   *)
(* the same spans; and the call leaves its Document as it was.             *)
(***************************************************************************)
SameSpansAsBefore ==
    (Returned /\ remembered # <<>> /\ remembered[1].doc.text = doc.text) =>
        /\ result[1].spans = remembered[1].spans
        /\ result[1].doc = doc

\* C9: the same text gives the same spans, and a call does not change its Document
C9_Deterministic ==
    /\ []SameSpansAsBefore
    /\ [][pc \notin {"idle", "done", "raised"} => doc' = doc]_vars

\* a second Document of the same text, with a word, after a call on another text
C9_Witness ==
    /\ Returned
    /\ remembered # <<>>
    /\ remembered[1].doc.text = doc.text
    /\ remembered[1].doc.id # doc.id
    /\ Len(doc.text) = MaxRepeatLen
    /\ WordsIn(doc.text) > 0
    /\ Len(result[1].spans) = 19

(***************************************************************************)
(* C10.  As claimed: for every non-empty text predict returns 19 spans, one*)
(* per metric, in this order: most common n-grams for n = 2, 3, 4,         *)
(* duplicate n-grams for n = 5..10, then the ten scalar fields; the n-gram *)
(* span of an n the text has too few words for has score 0.                *)
(***************************************************************************)
ScalarTypes ==
    << "character_count",
       "word_count",
       "median_word_length",
       "symbol_to_word_ratio",
       "fraction_of_words_with_alpha_character",
       "required_word_count",
       "fraction_of_lines_starting_with_bullet_point",
       "fraction_of_lines_ending_with_ellipsis",
       "fraction_of_duplicate_lines",
       "fraction_of_characters_in_duplicate_lines" >>

AllTypes ==
    << "fraction_of_characters_in_most_common_2grams",
       "fraction_of_characters_in_most_common_3grams",
       "fraction_of_characters_in_most_common_4grams",
       "fraction_of_characters_in_duplicate_5grams",
       "fraction_of_characters_in_duplicate_6grams",
       "fraction_of_characters_in_duplicate_7grams",
       "fraction_of_characters_in_duplicate_8grams",
       "fraction_of_characters_in_duplicate_9grams",
       "fraction_of_characters_in_duplicate_10grams" >> \o ScalarTypes

TypesOf(spans) == [i \in DOMAIN spans |-> spans[i].type]

OneSpanPerMetric ==
    /\ TypesOf(result[1].spans) = AllTypes
    /\ \A k \in 2..10 :
          WordsIn(doc.text) < k => result[1].spans[k - 1].score.num = 0

\* C10 as claimed, for every non-empty text
C10_SpansOfNonEmptyText ==
    (Returned /\ doc.text # <<>>) => OneSpanPerMetric

\* C10 as amended: the 19 spans are returned for every text with at least one
\* word; a non-empty text of whitespace only gets the ten scalar spans alone.
C10_SpansOfTextWithWord ==
    /\ (Returned /\ WordsIn(doc.text) > 0) => OneSpanPerMetric
    /\ (Returned /\ doc.text # <<>> /\ WordsIn(doc.text) = 0) =>
          TypesOf(result[1].spans) = ScalarTypes

\* a text of three words: the spans for n = 4..10 are there, with score 0
C10_Witness ==
    /\ Returned
    /\ WordsIn(doc.text) = 3
    /\ Len(result[1].spans) = 19
    /\ result[1].spans[2].score.num > 0
    /\ result[1].spans[3].score.num = 0

====
